---------------------------- MODULE Spec2Model ----------------------------
(***************************************************************************)
(* CustomerDataCleaner (src/src:/data_Cleaner.py): the cleaning pipeline   *)
(* over an in-memory table, one action per pipeline step of clean_all.     *)
(*                                                                         *)
(* Text is a sequence of one-character strings, so that strip, title,      *)
(* replace and the digit filter are computed character by character.       *)
(* A cell is [k |-> type tag, v |-> the text Python's str() gives it].     *)
(***************************************************************************)
EXTENDS Integers, Sequences, FiniteSets, TLC

\* largest number of rows of an input file
MaxRows == 3

-----------------------------------------------------------------------------
(* Python str primitives                                                   *)

LowerLetters == <<"a", "b", "c", "d", "e", "f", "g", "h", "i", "j", "k", "l", "m", "n", "o", "p", "q", "r", "s", "t", "u", "v", "w", "x", "y", "z">>
UpperLetters == <<"A", "B", "C", "D", "E", "F", "G", "H", "I", "J", "K", "L", "M", "N", "O", "P", "Q", "R", "S", "T", "U", "V", "W", "X", "Y", "Z">>
DigitChars == {"0", "1", "2", "3", "4", "5", "6", "7", "8", "9"}
Whitespace == {" "}

Range(s) == {s[i] : i \in 1..Len(s)}

IsLower(c) == \E i \in 1..Len(LowerLetters) : LowerLetters[i] = c
IsUpper(c) == \E i \in 1..Len(UpperLetters) : UpperLetters[i] = c
IsCased(c) == IsLower(c) \/ IsUpper(c)

ToLower(c) ==
  IF IsUpper(c) THEN LowerLetters[CHOOSE i \in 1..Len(UpperLetters) : UpperLetters[i] = c]
  ELSE c

ToUpper(c) ==
  IF IsLower(c) THEN UpperLetters[CHOOSE i \in 1..Len(LowerLetters) : LowerLetters[i] = c]
  ELSE c

\* str.lower()
lower(s) == [i \in 1..Len(s) |-> ToLower(s[i])]

\* str.title(): a cased character is upper-cased unless the character before
\* it is cased, in which case it is lower-cased
title(s) ==
  [i \in 1..Len(s) |->
     IF IsCased(s[i])
     THEN IF i > 1 /\ IsCased(s[i - 1]) THEN ToLower(s[i]) ELSE ToUpper(s[i])
     ELSE s[i]]

RECURSIVE lstrip(_, _)
lstrip(s, chars) ==
  IF s # <<>> /\ Head(s) \in chars THEN lstrip(Tail(s), chars) ELSE s

RECURSIVE rstrip(_, _)
rstrip(s, chars) ==
  IF s # <<>> /\ s[Len(s)] \in chars THEN rstrip(SubSeq(s, 1, Len(s) - 1), chars) ELSE s

\* str.strip(chars): leading and trailing characters of the set only
strip(s, chars) == rstrip(lstrip(s, chars), chars)

\* `sub in s`
contains(s, sub) ==
  \E i \in 0..(Len(s) - Len(sub)) : SubSeq(s, i + 1, i + Len(sub)) = sub

\* str.replace(old, new), regex=False: every non-overlapping occurrence, left to right
RECURSIVE replace(_, _, _)
replace(s, old, new) ==
  IF Len(s) < Len(old) THEN s
  ELSE IF SubSeq(s, 1, Len(old)) = old
       THEN new \o replace(SubSeq(s, Len(old) + 1, Len(s)), old, new)
       ELSE <<Head(s)>> \o replace(Tail(s), old, new)

\* str.replace(r'[^0-9]', '', regex=True)
digits_only(s) == SelectSeq(s, LAMBDA c : c \in DigitChars)

\* position of the first occurrence of c in s, 0 when there is none
RECURSIVE find(_, _)
find(s, c) ==
  IF s = <<>> THEN 0
  ELSE IF Head(s) = c THEN 1
  ELSE IF find(Tail(s), c) = 0 THEN 0 ELSE 1 + find(Tail(s), c)

\* str.split(sep, n): at most n splits, so at most n + 1 parts
RECURSIVE split(_, _, _)
split(s, sep, n) ==
  IF n = 0 \/ find(s, sep) = 0 THEN <<s>>
  ELSE <<SubSeq(s, 1, find(s, sep) - 1)>>
         \o split(SubSeq(s, find(s, sep) + 1, Len(s)), sep, n - 1)

-----------------------------------------------------------------------------
(* Cells and tables (pandas)                                               *)

Str(s) == [k |-> "str", v |-> s]
IntCell(s) == [k |-> "int", v |-> s]
FloatCell(s) == [k |-> "float", v |-> s]
BoolCell(s) == [k |-> "bool", v |-> s]
NaN == FloatCell(<<"n", "a", "n">>)
None == [k |-> "NoneType", v |-> <<"N", "o", "n", "e">>]
BoolTrue == BoolCell(<<"T", "r", "u", "e">>)
BoolFalse == BoolCell(<<"F", "a", "l", "s", "e">>)
Empty == Str(<<>>)

isna(c) == c = NaN \/ c = None

\* Series.astype(str): every element becomes the text str() gives it
astype_str(c) == Str(c.v)

\* self.df is None
NoData == [none |-> TRUE, columns |-> <<>>, dtypes |-> <<>>, rows |-> <<>>, index |-> <<>>]

ColumnSet(d) == Range(d.columns)
HasColumn(d, col) == col \in ColumnSet(d)
len(d) == Len(d.rows)

\* the positions 1..n, in order
Positions(n) == [i \in 1..n |-> i]

\* df[mask]: the rows at the given positions, with their index labels
TakeRows(d, pos) ==
  [d EXCEPT !.rows = [j \in 1..Len(pos) |-> d.rows[pos[j]]],
            !.index = [j \in 1..Len(pos) |-> d.index[pos[j]]]]

\* df[df[col] != value]
FilterNotEqual(d, col, value) ==
  TakeRows(d, SelectSeq(Positions(len(d)), LAMBDA i : d.rows[i][col] # value))

\* mutant: keep='last'
drop_duplicates_keep_last(d) ==
  TakeRows(d, SelectSeq(Positions(len(d)),
                        LAMBDA i : \A j \in (i + 1)..len(d) : d.rows[j] # d.rows[i]))

\* DataFrame.drop_duplicates(): keep='first'
drop_duplicates(d) ==
  TakeRows(d, SelectSeq(Positions(len(d)),
                        LAMBDA i : \A j \in 1..(i - 1) : d.rows[j] # d.rows[i]))

\* DataFrame.drop(columns=...)
drop_columns(d, remove) ==
  LET keep == SelectSeq(d.columns, LAMBDA c : c \notin remove)
  IN [d EXCEPT !.columns = keep,
               !.dtypes = [j \in 1..Len(keep) |->
                             d.dtypes[CHOOSE i \in 1..Len(d.columns) : d.columns[i] = keep[j]]],
               !.rows = [r \in 1..Len(d.rows) |-> [c \in Range(keep) |-> d.rows[r][c]]]]

DtypeOf(d, col) == d.dtypes[CHOOSE i \in 1..Len(d.columns) : d.columns[i] = col]

\* df[col] = series: replaces the column, or appends it when it is new
SetColumn(d, col, series, dtype) ==
  LET cols == IF HasColumn(d, col) THEN d.columns ELSE Append(d.columns, col)
  IN [d EXCEPT !.columns = cols,
               !.dtypes = [j \in 1..Len(cols) |->
                             IF cols[j] = col THEN dtype ELSE d.dtypes[j]],
               !.rows = [r \in 1..Len(d.rows) |->
                           [c \in Range(cols) |->
                              IF c = col THEN series[r] ELSE d.rows[r][c]]]]

Column(d, col) == [r \in 1..Len(d.rows) |-> d.rows[r][col]]

\* [col for col in cols if col in self.df.columns]
Existing(d, cols) == SelectSeq(cols, LAMBDA c : HasColumn(d, c))

-----------------------------------------------------------------------------
(* Column names and literals of data_Cleaner.py                            *)

First_Name == <<"F", "i", "r", "s", "t", "_", "N", "a", "m", "e">>
Last_Name == <<"L", "a", "s", "t", "_", "N", "a", "m", "e">>
first_name == <<"f", "i", "r", "s", "t", "_", "n", "a", "m", "e">>
last_name == <<"l", "a", "s", "t", "_", "n", "a", "m", "e">>
Phone_Number == <<"P", "h", "o", "n", "e", "_", "N", "u", "m", "b", "e", "r">>
phone_number == <<"p", "h", "o", "n", "e", "_", "n", "u", "m", "b", "e", "r">>
Phone == <<"P", "h", "o", "n", "e">>
phone == <<"p", "h", "o", "n", "e">>
Address == <<"A", "d", "d", "r", "e", "s", "s">>
address == <<"a", "d", "d", "r", "e", "s", "s">>
Full_Address == <<"F", "u", "l", "l", "_", "A", "d", "d", "r", "e", "s", "s">>
Street_Address == <<"S", "t", "r", "e", "e", "t", "_", "A", "d", "d", "r", "e", "s", "s">>
State == <<"S", "t", "a", "t", "e">>
Zip_Code == <<"Z", "i", "p", "_", "C", "o", "d", "e">>

name_columns == <<First_Name, Last_Name, first_name, last_name>>
name_strip_chars == Range(<<"1", "2", "3", ".", "/", "_", "-">>)
phone_columns == <<Phone_Number, phone_number, Phone, phone>>
address_columns == <<Address, address, Full_Address>>
unnecessary_keywords == {<<"n", "o", "t", "_", "u", "s", "e", "f", "u", "l">>,
                         <<"u", "n", "u", "s", "e", "d">>}
do_not_contact == <<"d", "o", "_", "n", "o", "t", "_", "c", "o", "n", "t", "a", "c", "t">>
boolean_keywords == {do_not_contact,
                     <<"p", "a", "y", "i", "n", "g", "_", "c", "u", "s", "t", "o", "m", "e", "r">>,
                     <<"a", "c", "t", "i", "v", "e">>}
missing_patterns == {<<"N", "/", "a">>, <<"N", "/", "A">>, <<"n", "u", "l", "l">>,
                     <<"N", "U", "L", "L">>, <<"N", "o", "n", "e">>, <<"N", "O", "N", "E">>}
Y == <<"Y">>
N == <<"N">>

-----------------------------------------------------------------------------
(* The cleaning steps as functions of the table                            *)

\* remove_unnecessary_columns(None): the default column list
unnecessary_columns(d) ==
  {c \in ColumnSet(d) : \E kw \in unnecessary_keywords : contains(lower(c), kw)}

remove_unnecessary_columns_df(d) ==
  IF unnecessary_columns(d) # {} THEN drop_columns(d, unnecessary_columns(d)) ELSE d

\* .astype(str).str.strip("123./_-") then .str.title()
clean_name(c) == Str(title(strip(astype_str(c).v, name_strip_chars)))

\* for col in existing_name_columns: self.df[col] = ...
RECURSIVE clean_names_loop(_, _)
clean_names_loop(d, cols) ==
  IF cols = <<>> THEN d
  ELSE clean_names_loop(
         SetColumn(d, Head(cols), [r \in 1..len(d) |-> clean_name(d.rows[r][Head(cols)])], "object"),
         Tail(cols))

clean_names_df(d) == clean_names_loop(d, Existing(d, name_columns))

\* str[:3] + '-' + str[3:6] + '-' + str[6:10]
format_phone(s) == SubSeq(s, 1, 3) \o <<"-">> \o SubSeq(s, 4, 6) \o <<"-">> \o SubSeq(s, 7, 10)

\* mutant: a number that has not ten digits keeps its digits
standardize_phone_keep_invalid(c) ==
  LET s3 == digits_only(astype_str(c).v)
  IN  IF Len(s3) = 10 THEN Str(format_phone(s3)) ELSE Str(s3)

standardize_phone(c) ==
  LET s0 == astype_str(c).v
      s1 == replace(s0, <<"N", "a", "-", "-">>, <<>>)
      s2 == replace(s1, <<"n", "a", "n", "-", "-">>, <<>>)
      s3 == digits_only(s2)
      mask == Len(s3) = 10
      s4 == IF mask THEN format_phone(s3) ELSE s3
  IN  IF ~mask /\ s4 # <<>> THEN Empty ELSE Str(s4)

\* for col in existing_phone_columns: self.df[col] = ...
RECURSIVE standardize_phone_numbers_loop(_, _)
standardize_phone_numbers_loop(d, cols) ==
  IF cols = <<>> THEN d
  ELSE standardize_phone_numbers_loop(
         SetColumn(d, Head(cols),
                   [r \in 1..len(d) |-> standardize_phone(d.rows[r][Head(cols)])], "object"),
         Tail(cols))

standardize_phone_numbers_df(d) ==
  standardize_phone_numbers_loop(d, Existing(d, phone_columns))

\* the first of Address, address, Full_Address in the table; <<>> for None
address_column(d) ==
  IF Existing(d, address_columns) = <<>> THEN <<>> ELSE Head(Existing(d, address_columns))

Max(S) == IF S = {} THEN 0 ELSE CHOOSE m \in S : \A x \in S : x <= m

\* Series.str.split(',', n=2, expand=True): one column per part of the longest
\* split; a short split is padded with None, a non-string element gives NaN
address_parts(d, col) ==
  LET texts == Column(d, col)
      lists == [r \in 1..Len(texts) |->
                  IF texts[r].k = "str" THEN split(texts[r].v, ",", 2) ELSE <<>>]
      width == Max({Len(lists[r]) : r \in 1..Len(texts)})
  IN  [width |-> width,
       part |-> [i \in 1..width |->
                   [r \in 1..Len(texts) |->
                      IF texts[r].k # "str" THEN NaN
                      ELSE IF i <= Len(lists[r]) THEN Str(lists[r][i]) ELSE None]]]

\* Series.str.strip() on one element: a non-string element gives NaN
str_strip(c) == IF c.k = "str" THEN Str(strip(c.v, Whitespace)) ELSE NaN

\* Series.str on a column: pandas raises AttributeError unless the values are
\* inferred as strings, as empty, or as a mix of types
str_accessor_ok(d, col) ==
  LET kinds == {d.rows[r][col].k : r \in {q \in 1..len(d) : ~isna(d.rows[q][col])}}
  IN  /\ DtypeOf(d, col) = "object"
      /\ \/ kinds \subseteq {"str"}
         \/ Cardinality(kinds) > 1 /\ ~(kinds \subseteq {"int", "float"})

parse_addresses_df(d) ==
  LET col == address_column(d)
  IN  IF col = <<>> THEN d
      ELSE IF ~str_accessor_ok(d, col) THEN d  \* .str raises AttributeError, caught
      ELSE LET ap == address_parts(d, col)
               stripped(i) == [r \in 1..len(d) |-> str_strip(ap.part[i][r])]
           IN  IF ap.width >= 2
               THEN SetColumn(
                      SetColumn(
                        SetColumn(d, Street_Address, stripped(1), "object"),
                        State, stripped(2), "object"),
                      Zip_Code,
                      IF ap.width > 2 THEN stripped(3) ELSE [r \in 1..len(d) |-> Empty],
                      "object")
               ELSE d

boolean_columns(d) ==
  SelectSeq(d.columns, LAMBDA c : \E kw \in boolean_keywords : contains(lower(c), kw))

standardize_boolean(c) ==
  LET s0 == astype_str(c).v
      s1 == replace(s0, <<"Y", "e", "s">>, Y)
      s2 == replace(s1, <<"N", "o">>, N)
      s3 == replace(s2, <<"T", "R", "U", "E">>, Y)
      s4 == replace(s3, <<"F", "A", "L", "S", "E">>, N)
  IN  Str(s4)

\* for col in boolean_columns: self.df[col] = ...
RECURSIVE standardize_boolean_fields_loop(_, _)
standardize_boolean_fields_loop(d, cols) ==
  IF cols = <<>> THEN d
  ELSE standardize_boolean_fields_loop(
         SetColumn(d, Head(cols),
                   [r \in 1..len(d) |-> standardize_boolean(d.rows[r][Head(cols)])], "object"),
         Tail(cols))

standardize_boolean_fields_df(d) == standardize_boolean_fields_loop(d, boolean_columns(d))

\* fillna('') then replace(pattern, '') for every pattern: whole-cell matches
handle_missing(c) ==
  LET filled == IF isna(c) THEN Empty ELSE c
  IN  IF filled.k = "str" /\ filled.v \in missing_patterns THEN Empty ELSE filled

\* mutant: missing values are handled by dropping their rows (dropna)
handle_missing_values_dropna(d) ==
  TakeRows(d, SelectSeq(Positions(len(d)),
                        LAMBDA r : \A c \in ColumnSet(d) : ~isna(d.rows[r][c])))

handle_missing_values_df(d) ==
  [d EXCEPT !.rows = [r \in 1..len(d) |-> [c \in ColumnSet(d) |-> handle_missing(d.rows[r][c])]],
            !.dtypes = [j \in 1..Len(d.columns) |->
                          IF \E r \in 1..len(d) : isna(d.rows[r][d.columns[j]])
                          THEN "object" ELSE d.dtypes[j]]]

\* for col in cols: before = len(df); df = df[df[col] != value]; removed += before - len(df)
RECURSIVE FilterLoop(_, _, _, _)
FilterLoop(d, cols, value, removed) ==
  IF cols = <<>> THEN [df |-> d, removed |-> removed]
  ELSE LET after == FilterNotEqual(d, Head(cols), value)
       IN  FilterLoop(after, Tail(cols), value, removed + (len(d) - len(after)))

do_not_contact_cols(d) == SelectSeq(d.columns, LAMBDA c : contains(lower(c), do_not_contact))
phone_cols(d) == SelectSeq(d.columns, LAMBDA c : contains(lower(c), phone))

\* mutant: the phone rule counts its rows on the table as it was before the
\* opt-out rule, so a row both rules match is counted twice
apply_business_rules_overlap(d) ==
  LET rule1 == FilterLoop(d, do_not_contact_cols(d), Str(Y), 0)
      rule2 == FilterLoop(rule1.df, phone_cols(rule1.df), Empty, 0)
  IN  [df |-> rule2.df,
       do_not_contact_removed |-> rule1.removed,
       invalid_phones_removed |-> FilterLoop(d, phone_cols(d), Empty, 0).removed]

\* mutant: the phone rule runs before the opt-out rule
apply_business_rules_phone_first(d) ==
  LET rule2 == FilterLoop(d, phone_cols(d), Empty, 0)
      rule1 == FilterLoop(rule2.df, do_not_contact_cols(rule2.df), Str(Y), 0)
  IN  [df |-> rule1.df,
       do_not_contact_removed |-> rule1.removed,
       invalid_phones_removed |-> rule2.removed]

\* the table and the two counter increments of one apply_business_rules call
apply_business_rules_df(d) ==
  LET rule1 == FilterLoop(d, do_not_contact_cols(d), Str(Y), 0)
      rule2 == FilterLoop(rule1.df, phone_cols(rule1.df), Empty, 0)
  IN  [df |-> rule2.df,
       do_not_contact_removed |-> rule1.removed,
       invalid_phones_removed |-> rule2.removed]

\* sum of empty Zip_Code cells > len(df) * 0.8, in integers
zip_mostly_empty(d) ==
  LET blank == {r \in 1..len(d) : str_strip(d.rows[r][Zip_Code]) = Empty}
  IN  5 * Cardinality(blank) > 4 * len(d)

\* line 276: self.df['Zip_Code'].str raises
cleanup_columns_raises(d) == HasColumn(d, Zip_Code) /\ ~str_accessor_ok(d, Zip_Code)

cleanup_columns_df(d) ==
  LET remove == (IF HasColumn(d, Street_Address) /\ HasColumn(d, Address) THEN {Address} ELSE {})
                \cup (IF HasColumn(d, Zip_Code) /\ zip_mostly_empty(d) THEN {Zip_Code} ELSE {})
  IN  IF remove # {} THEN drop_columns(d, remove) ELSE d

\* DataFrame.reset_index(drop=True)
reset_index(d) == [d EXCEPT !.index = [j \in 1..len(d) |-> j - 1]]


-----------------------------------------------------------------------------
(* Input files: the tables pd.read_csv / pd.read_excel can hand to the     *)
(* pipeline.  A file is a header and at most MaxRows rows of raw cells     *)
(* (text, whole number, boolean, or blank, which is read as NaN).          *)

Home_Phone == <<"H", "o", "m", "e", "_", "P", "h", "o", "n", "e">>
Do_Not_Contact == <<"D", "o", "_", "N", "o", "t", "_", "C", "o", "n", "t", "a", "c", "t">>
Is_Active == <<"I", "s", "_", "A", "c", "t", "i", "v", "e">>
Email_Do_Not_Contact == <<"E", "m", "a", "i", "l", "_", "D", "o", "_", "N", "o", "t", "_", "C", "o", "n", "t", "a", "c", "t">>
Unused_Col == <<"U", "n", "u", "s", "e", "d", "_", "C", "o", "l">>

TenDigits == <<"5", "5", "5", "1", "2", "3", "4", "5", "6", "7">>
Dashed == <<"5", "5", "5", "-", "1", "2", "3", "-", "4", "5", "6", "7">>

NameValues ==
  {Str(<<"b", "o", "b", "-", "-">>), Str(<<"a", "l", "_", "i", "c", "e">>),
   Str(<<"J", "A", "N", "E">>), Str(<<"a", "n", "n", "4">>), NaN,
   Str(<<"N", "O", "N", "E">>)}

PhoneValues ==
  {Str(TenDigits), Str(Dashed), Str(<<"N", "a", "-", "-">>), Str(<<"1", "2", "3", "4", "5">>),
   Str(<<"1">> \o TenDigits), IntCell(TenDigits), NaN}

\* a flag column written as text
FlagValues ==
  {Str(<<"Y", "e", "s">>), Str(<<"N", "o">>), Str(<<"T", "R", "U", "E">>),
   Str(<<"F", "A", "L", "S", "E">>), Str(Y), Str(N)}

\* a flag column of true/false cells, some of them blank: read as booleans and NaN
BoolFlagValues == {BoolTrue, BoolFalse, NaN}

AddressValues ==
  {Str(<<"1", " ", "A", ",", " ", "N", "Y", ",", " ", "1", "0", "0", "0", "1">>),
   Str(<<"2", " ", "B", ",", "C", "A">>), Str(<<"3", " ", "C">>), NaN}

\* the headers of the input files, each with the values its columns take
Schemas ==
  {[columns |-> <<First_Name, Phone_Number>>,
    dom |-> (First_Name :> NameValues) @@ (Phone_Number :> {Str(Dashed)})],
   [columns |-> <<Phone_Number>>,
    dom |-> (Phone_Number :> PhoneValues)],
   [columns |-> <<Phone_Number, Do_Not_Contact>>,
    dom |-> (Phone_Number :> {Str(Dashed)}) @@ (Do_Not_Contact :> FlagValues)],
   [columns |-> <<Phone_Number, Do_Not_Contact>>,
    dom |-> (Phone_Number :> {Str(Dashed)}) @@ (Do_Not_Contact :> BoolFlagValues)],
   [columns |-> <<Do_Not_Contact, Phone_Number>>,
    dom |-> (Do_Not_Contact :> {Str(<<"Y", "e", "s">>), Str(<<"N", "o">>)})
            @@ (Phone_Number :> {Str(Dashed), NaN})],
   [columns |-> <<Home_Phone, Phone_Number>>,
    dom |-> (Home_Phone :> {Str(Dashed), Str(<<"1", "2", "3", "4", "5">>), NaN})
            @@ (Phone_Number :> {Str(TenDigits), Str(<<"N", "a", "-", "-">>)})],
   [columns |-> <<Address, Phone_Number>>,
    dom |-> (Address :> AddressValues) @@ (Phone_Number :> {Str(Dashed)})],
   [columns |-> <<Full_Address, Phone_Number>>,
    dom |-> (Full_Address :> AddressValues) @@ (Phone_Number :> {Str(Dashed)})],
   [columns |-> <<Do_Not_Contact, Email_Do_Not_Contact, Phone_Number>>,
    dom |-> (Do_Not_Contact :> {Str(<<"Y", "e", "s">>), Str(<<"N", "o">>)})
            @@ (Email_Do_Not_Contact :> {Str(<<"Y", "e", "s">>), Str(<<"N", "o">>)})
            @@ (Phone_Number :> {Str(Dashed)})],
   [columns |-> <<Zip_Code, Phone_Number>>,
    dom |-> (Zip_Code :> {IntCell(<<"1", "0", "0", "0", "1">>), NaN})
            @@ (Phone_Number :> {Str(Dashed)})],
   [columns |-> <<Unused_Col, Is_Active, phone>>,
    dom |-> (Unused_Col :> {Str(<<"x">>), NaN})
            @@ (Is_Active :> {Str(<<"Y", "e", "s">>), BoolFalse})
            @@ (phone :> {Str(Dashed)})]}

RowsOf(schema) ==
  {r \in [Range(schema.columns) -> UNION {schema.dom[c] : c \in Range(schema.columns)}] :
     \A c \in Range(schema.columns) : r[c] \in schema.dom[c]}

InputFiles ==
  UNION {{[columns |-> schema.columns, rows |-> rs] :
            rs \in UNION {[1..n -> RowsOf(schema)] : n \in 0..MaxRows}} : schema \in Schemas}

\* the dtype the reader infers for a column from its cells
infer_dtype(cells) ==
  IF cells = {} THEN "object"
  ELSE IF \A c \in cells : c.k = "int" THEN "int64"
  ELSE IF \A c \in cells : c.k \in {"int", "float"} THEN "float64"
  ELSE IF \A c \in cells : c.k = "bool" THEN "bool"
  ELSE "object"

\* a whole number in a float64 column is a float: str() gives it a trailing .0
as_dtype(c, dtype) ==
  IF dtype = "float64" /\ c.k = "int" THEN FloatCell(c.v \o <<".", "0">>) ELSE c

\* pd.read_csv(filepath) / pd.read_excel(filepath)
read_file(file) ==
  LET dtype(col) == infer_dtype({file.rows[r][col] : r \in 1..Len(file.rows)})
  IN  [none |-> FALSE,
       columns |-> file.columns,
       dtypes |-> [j \in 1..Len(file.columns) |-> dtype(file.columns[j])],
       rows |-> [r \in 1..Len(file.rows) |->
                   [c \in Range(file.columns) |-> as_dtype(file.rows[r][c], dtype(c))]],
       index |-> [r \in 1..Len(file.rows) |-> r - 1]]

-----------------------------------------------------------------------------
(* Paths: os.path.splitext and os.path.dirname on a POSIX path             *)

\* str.rfind(c) + 1: position of the last occurrence of c in s, 0 when there is none
RECURSIVE rfind(_, _)
rfind(s, c) ==
  IF s = <<>> THEN 0
  ELSE IF s[Len(s)] = c THEN Len(s)
  ELSE rfind(SubSeq(s, 1, Len(s) - 1), c)

\* os.path.splitext(p)[1]: from the last dot of the base name, unless only dots precede it
splitext_ext(p) ==
  LET sep == rfind(p, "/")
      dot == rfind(p, ".")
  IN  IF dot > sep /\ (\E i \in (sep + 1)..(dot - 1) : p[i] # ".")
      THEN SubSeq(p, dot, Len(p))
      ELSE <<>>

\* os.path.dirname(p)
dirname(p) ==
  LET head == SubSeq(p, 1, rfind(p, "/"))
  IN  IF head # <<>> /\ (\E k \in 1..Len(head) : head[k] # "/")
      THEN rstrip(head, {"/"})
      ELSE head

raw_data_csv == <<"r", "a", "w", "_", "d", "a", "t", "a", ".", "c", "s", "v">>
raw_data_json == <<"r", "a", "w", "_", "d", "a", "t", "a", ".", "j", "s", "o", "n">>
DATA_XLSX == <<"D", "A", "T", "A", ".", "X", "L", "S", "X">>
cleaned_data_csv == <<"c", "l", "e", "a", "n", "e", "d", "_", "d", "a", "t", "a", ".", "c", "s", "v">>
output_cleaned_data_csv == <<"o", "u", "t", "p", "u", "t", "/", "c", "l", "e", "a", "n", "e", "d", "_", "d", "a", "t", "a", ".", "c", "s", "v">>
readonly_cleaned_csv == <<"/", "r", "e", "a", "d", "o", "n", "l", "y", "/", "c", "l", "e", "a", "n", "e", "d", ".", "c", "s", "v">>

\* what clean_all can be given: a path, whether a readable file is there, and the file
Inputs ==
  {[name |-> raw_data_csv, exists |-> TRUE, file |-> f] : f \in InputFiles}

\* paths load_data cannot read: an extension it does not support, no file
BadInputs ==
  {[name |-> raw_data_json, exists |-> TRUE, file |-> [columns |-> <<Phone_Number>>, rows |-> <<>>]],
   [name |-> raw_data_csv, exists |-> FALSE, file |-> [columns |-> <<>>, rows |-> <<>>]]}

\* load_data lines 55-61: the extension is supported and the reader does not raise
readable(input) ==
  /\ lower(splitext_ext(input.name)) \in {<<".", "x", "l", "s", "x">>, <<".", "c", "s", "v">>}
  /\ input.exists

\* where save_cleaned_data can be asked to write: a path and whether the
\* directory of the path can be written to
OutputPaths ==
  {[name |-> cleaned_data_csv, writable |-> TRUE],
   [name |-> output_cleaned_data_csv, writable |-> TRUE],
   [name |-> readonly_cleaned_csv, writable |-> FALSE]}

\* os.makedirs(name, exist_ok=True) raises (FileNotFoundError for the empty
\* name, PermissionError where nothing can be written)
makedirs_raises(name, writable) == name = <<>> \/ ~writable

-----------------------------------------------------------------------------
(* The cleaner: one action per step of clean_all                           *)

VARIABLES
  df,               \* self.df
  cleaning_report,  \* self.cleaning_report
  pc,               \* where clean_all stands: "idle", the step to run next, or "done"
  result,           \* what clean_all returned: "none" while it has not returned
  calls,            \* the methods the current clean_all has called so far, in order
  loaded,           \* the table load_data read
  origin,           \* for every row of df, the index label load_data gave it
  filepath,         \* the argument of the last clean_all: path, and whether a file is there
  runs,             \* how often clean_all was called on this instance
  disk,             \* the files save_cleaned_data wrote: path -> table
  saved,            \* what the last save_cleaned_data returned: "none" before the first
  output_filepath   \* the argument of the last save_cleaned_data

cleaner_vars ==
  <<df, cleaning_report, pc, result, calls, loaded, origin, filepath, runs,
    disk, saved, output_filepath>>

VARIABLES
  scraper_df,       \* FortuneCompanyScraper: self.df
  scraper_pc,       \* where scrape_and_export stands: "idle" or the stage to run next
  soup,             \* scrape_and_export: what fetch_webpage returned
  table,            \* scrape_and_export: its local df
  returned,         \* what the last scrape_and_export returned (NoData for None)
  save_result,      \* what save_to_csv returned in the last scrape_and_export
  scrapes,          \* how often scrape_and_export was called on this instance
  clean_arg,        \* the argument of the last direct call of clean_data
  cleaned           \* what that call returned

scraper_vars ==
  <<scraper_df, scraper_pc, soup, table, returned, save_result, scrapes, clean_arg, cleaned>>

VARIABLES
  eda_df,            \* ComprehensiveEDA: self.df
  analysis_results,  \* ComprehensiveEDA: self.analysis_results
  overview_returned  \* whether data_overview was called, and what the last call returned

eda_vars == <<eda_df, analysis_results, overview_returned>>

vars == <<cleaner_vars, scraper_vars, eda_vars>>

\* mutant: the business rules run before the missing values are handled
Pipeline_rules_early ==
  <<"remove_duplicates", "remove_unnecessary_columns", "clean_names",
    "standardize_phone_numbers", "parse_addresses", "standardize_boolean_fields",
    "apply_business_rules", "handle_missing_values", "cleanup_columns", "finalize_data">>

\* the calls of clean_all after load_data, in program order
Pipeline ==
  <<"remove_duplicates", "remove_unnecessary_columns", "clean_names",
    "standardize_phone_numbers", "parse_addresses", "standardize_boolean_fields",
    "handle_missing_values", "apply_business_rules", "cleanup_columns", "finalize_data">>

\* the statement of clean_all that follows the call of `step`
After(step) ==
  LET i == CHOOSE j \in 1..Len(Pipeline) : Pipeline[j] = step
  IN  IF i = Len(Pipeline) THEN "done" ELSE Pipeline[i + 1]

\* the step was called by clean_all, whose first call is load_data
InCleanAll == calls # <<>> /\ Head(calls) = "load_data"

\* where control goes when `step` returns: on in clean_all, or back to the
\* caller who called the step himself
Return(step) == IF InCleanAll THEN After(step) ELSE "idle"

\* calls of clean_all on one instance
MaxRuns == 2

\* steps a caller calls himself, one after the other, while nothing is loaded
MaxDirectCalls == 2

CleanerInit ==
  /\ df = NoData
  /\ cleaning_report = [original_rows |-> 0, duplicates_removed |-> 0,
                        invalid_phones_removed |-> 0, do_not_contact_removed |-> 0,
                        final_rows |-> 0]
  /\ pc = "idle"
  /\ result = "none"
  /\ calls = <<>>
  /\ loaded = NoData
  /\ origin = <<>>
  /\ filepath = [name |-> <<>>, exists |-> FALSE]
  /\ runs = 0
  /\ disk = <<>>
  /\ saved = "none"
  /\ output_filepath = [name |-> <<>>, writable |-> FALSE]


\* soup is None
NoSoup == [none |-> TRUE, tables |-> <<>>]

\* FortuneCompanyScraper.__init__
ScraperInit ==
  /\ scraper_df = NoData
  /\ scraper_pc = "idle"
  /\ soup = NoSoup
  /\ table = NoData
  /\ returned = NoData
  /\ save_result = "none"
  /\ scrapes = 0
  /\ clean_arg = NoData
  /\ cleaned = NoData

\* ComprehensiveEDA.__init__
EdaInit ==
  /\ eda_df = NoData
  /\ analysis_results = <<>>
  /\ overview_returned = [called |-> FALSE, value |-> <<>>]

Init == CleanerInit /\ ScraperInit /\ EdaInit

\* clean_all(filepath) entered, on a new instance or after an earlier call returned
Entered(input) ==
  /\ pc \in {"idle", "done"}
  /\ runs < MaxRuns
  /\ runs' = runs + 1
  /\ filepath' = [name |-> input.name, exists |-> input.exists]
  /\ calls' = <<"load_data">>
  /\ UNCHANGED <<disk, saved, output_filepath>>
  /\ UNCHANGED <<scraper_vars, eda_vars>>

\* clean_all(filepath) entered; load_data reads the file
load_data(input) ==
  /\ Entered(input)
  /\ readable(input)
  /\ df' = read_file(input.file)
  /\ cleaning_report' = [cleaning_report EXCEPT !.original_rows = len(df')]
  /\ pc' = Pipeline[1]
  /\ result' = "none"
  /\ loaded' = df'
  /\ origin' = df'.index

\* mutant: a failed load_data forgets the row count of the table it keeps
load_data_fails_resets(input) ==
  /\ Entered(input)
  /\ ~readable(input)
  /\ pc' = "done"
  /\ result' = "False"
  /\ cleaning_report' = [cleaning_report EXCEPT !.original_rows = 0]
  /\ UNCHANGED <<df, loaded, origin>>

\* clean_all(filepath) entered; load_data fails (unsupported extension, unreadable file)
load_data_fails(input) ==
  /\ Entered(input)
  /\ ~readable(input)
  /\ pc' = "done"
  /\ result' = "False"
  /\ UNCHANGED <<df, cleaning_report, loaded, origin>>

\* a step that changes the table only
\* mutant: a step that finds no table starts from an empty one
Step_creates_table(name, newdf) ==
  /\ pc = name
  /\ df' = (IF df.none THEN [NoData EXCEPT !.none = FALSE] ELSE newdf)
  /\ origin' = df'.index
  /\ pc' = Return(name)
  /\ calls' = Append(calls, name)
  /\ UNCHANGED <<result, loaded, filepath, runs, disk, saved, output_filepath>>
  /\ UNCHANGED <<scraper_vars, eda_vars>>

\* the part all steps share: `if self.df is None: return`, else the new table
Step(name, newdf) ==
  /\ pc = name
  /\ df' = (IF df.none THEN df ELSE newdf)
  /\ origin' = df'.index
  /\ pc' = Return(name)
  /\ calls' = Append(calls, name)
  /\ UNCHANGED <<result, loaded, filepath, runs, disk, saved, output_filepath>>
  /\ UNCHANGED <<scraper_vars, eda_vars>>

remove_duplicates ==
  /\ Step("remove_duplicates", drop_duplicates(df))
  /\ cleaning_report' =
       IF df.none THEN cleaning_report
       ELSE [cleaning_report EXCEPT !.duplicates_removed = len(df) - len(df')]

remove_unnecessary_columns ==
  /\ Step("remove_unnecessary_columns", remove_unnecessary_columns_df(df))
  /\ UNCHANGED cleaning_report

clean_names ==
  /\ Step("clean_names", clean_names_df(df))
  /\ UNCHANGED cleaning_report

standardize_phone_numbers ==
  /\ Step("standardize_phone_numbers", standardize_phone_numbers_df(df))
  /\ UNCHANGED cleaning_report

parse_addresses ==
  /\ Step("parse_addresses", parse_addresses_df(df))
  /\ UNCHANGED cleaning_report

standardize_boolean_fields ==
  /\ Step("standardize_boolean_fields", standardize_boolean_fields_df(df))
  /\ UNCHANGED cleaning_report

handle_missing_values ==
  /\ Step("handle_missing_values", handle_missing_values_df(df))
  /\ UNCHANGED cleaning_report

apply_business_rules ==
  /\ Step("apply_business_rules", apply_business_rules_df(df).df)
  /\ cleaning_report' =
       IF df.none THEN cleaning_report
       ELSE [cleaning_report EXCEPT
               !.do_not_contact_removed = @ + apply_business_rules_df(df).do_not_contact_removed,
               !.invalid_phones_removed = @ + apply_business_rules_df(df).invalid_phones_removed]

\* mutant: clean_all reports success although cleanup_columns raised
cleanup_columns_returns_true ==
  /\ pc = "cleanup_columns"
  /\ IF ~df.none /\ cleanup_columns_raises(df)
     THEN /\ pc' = "done"
          /\ result' = "True"
          /\ calls' = Append(calls, "cleanup_columns")
          /\ UNCHANGED <<df, origin, loaded, filepath, runs, disk, saved, output_filepath>>
          /\ UNCHANGED <<scraper_vars, eda_vars>>
     ELSE Step("cleanup_columns", cleanup_columns_df(df))
  /\ UNCHANGED cleaning_report

\* cleanup_columns has no handler of its own: what it raises ends clean_all,
\* which returns False from its except clause
cleanup_columns ==
  /\ pc = "cleanup_columns"
  /\ IF ~df.none /\ cleanup_columns_raises(df)
     THEN /\ pc' = "done"
          /\ result' = "False"
          /\ calls' = Append(calls, "cleanup_columns")
          /\ UNCHANGED <<df, origin, loaded, filepath, runs, disk, saved, output_filepath>>
          /\ UNCHANGED <<scraper_vars, eda_vars>>
     ELSE Step("cleanup_columns", cleanup_columns_df(df))
  /\ UNCHANGED cleaning_report

\* the last step; clean_all then returns True
finalize_data ==
  /\ pc = "finalize_data"
  /\ df' = (IF df.none THEN df ELSE reset_index(df))
  /\ cleaning_report' =
       IF df.none THEN cleaning_report
       ELSE [cleaning_report EXCEPT !.final_rows = len(df')]
  /\ pc' = Return("finalize_data")
  /\ result' = (IF InCleanAll THEN "True" ELSE result)
  /\ calls' = Append(calls, "finalize_data")
  /\ UNCHANGED <<loaded, origin, filepath, runs, disk, saved, output_filepath>>
  /\ UNCHANGED <<scraper_vars, eda_vars>>

\* DataFrame.to_csv(path, index=False): the header and the rows, no index
to_csv(d) == [columns |-> d.columns, rows |-> d.rows]

\* save_cleaned_data(output_filepath), called while no clean_all is running
save_cleaned_data(out) ==
  /\ pc \in {"idle", "done"}
  /\ output_filepath' = out
  /\ IF df.none
     THEN saved' = "False" /\ UNCHANGED disk
     ELSE IF makedirs_raises(dirname(out.name), out.writable)
     THEN saved' = "False" /\ UNCHANGED disk
     ELSE /\ disk' = [p \in DOMAIN disk \cup {out.name} |->
                        IF p = out.name THEN to_csv(df) ELSE disk[p]]
          /\ saved' = "True"
  /\ UNCHANGED <<df, cleaning_report, pc, result, calls, loaded, origin, filepath, runs>>
  /\ UNCHANGED <<scraper_vars, eda_vars>>

\* one clean_all on a new instance
Next ==
  \/ \E input \in Inputs : pc = "idle" /\ load_data(input)
  \/ \E input \in BadInputs : pc = "idle" /\ load_data_fails(input)
  \/ remove_duplicates
  \/ remove_unnecessary_columns
  \/ clean_names
  \/ standardize_phone_numbers
  \/ parse_addresses
  \/ standardize_boolean_fields
  \/ handle_missing_values
  \/ apply_business_rules
  \/ cleanup_columns
  \/ finalize_data

Spec == Init /\ [][Next]_vars

\* the files of a session: a customer list with an opted-out customer and one
\* without a phone, a list with a numeric Zip_Code column, a list with addresses
SessionFiles ==
  <<[columns |-> <<Do_Not_Contact, Phone_Number>>,
     rows |-> <<(Do_Not_Contact :> Str(<<"Y", "e", "s">>)) @@ (Phone_Number :> Str(Dashed)),
                (Do_Not_Contact :> Str(<<"N", "o">>)) @@ (Phone_Number :> NaN)>>],
    [columns |-> <<Zip_Code, Phone_Number>>,
     rows |-> <<(Zip_Code :> IntCell(<<"1", "0", "0", "0", "1">>)) @@ (Phone_Number :> Str(Dashed))>>],
    [columns |-> <<Address, Phone_Number>>,
     rows |-> <<(Address :> Str(<<"2", " ", "B", ",", "C", "A">>)) @@ (Phone_Number :> Str(Dashed))>>]>>

SessionInputs ==
  {[name |-> raw_data_csv, exists |-> TRUE, file |-> SessionFiles[1]],
   [name |-> DATA_XLSX, exists |-> TRUE, file |-> SessionFiles[2]],
   [name |-> raw_data_csv, exists |-> TRUE, file |-> SessionFiles[3]]} \cup BadInputs

\* one instance used for a whole session: clean_all again after it returned,
\* save_cleaned_data between the calls
NextSession ==
  \/ \E input \in SessionInputs : load_data(input)
  \/ \E input \in SessionInputs : load_data_fails(input)
  \/ remove_duplicates
  \/ remove_unnecessary_columns
  \/ clean_names
  \/ standardize_phone_numbers
  \/ parse_addresses
  \/ standardize_boolean_fields
  \/ handle_missing_values
  \/ apply_business_rules
  \/ cleanup_columns
  \/ finalize_data
  \/ \E out \in OutputPaths : save_cleaned_data(out)

SpecSession == Init /\ [][NextSession]_vars

\* a caller calls the step `name` himself on an instance that holds no table:
\* control enters the method
step_called(name) ==
  /\ pc \in {"idle", "done"}
  /\ df.none
  /\ InCleanAll \/ Len(calls) < MaxDirectCalls
  /\ pc' = name
  /\ calls' = (IF InCleanAll THEN <<>> ELSE calls)
  /\ UNCHANGED <<df, cleaning_report, result, loaded, origin, filepath, runs,
                 disk, saved, output_filepath>>
  /\ UNCHANGED <<scraper_vars, eda_vars>>

\* one instance whose steps are also called one by one, in any order, as long
\* as no file has been read
NextBeforeLoad ==
  \/ \E i \in 1..Len(Pipeline) : step_called(Pipeline[i])
  \/ \E input \in SessionInputs : load_data(input)
  \/ \E input \in SessionInputs : load_data_fails(input)
  \/ remove_duplicates
  \/ remove_unnecessary_columns
  \/ clean_names
  \/ standardize_phone_numbers
  \/ parse_addresses
  \/ standardize_boolean_fields
  \/ handle_missing_values
  \/ apply_business_rules
  \/ cleanup_columns
  \/ finalize_data

SpecBeforeLoad == Init /\ [][NextBeforeLoad]_vars

-----------------------------------------------------------------------------
(* FortuneCompanyScraper.  A page is the sequence of its tables; a table   *)
(* has its class and its tr rows; a row is the sequence of its th and td   *)
(* cells, in document order.                                                *)

Company == <<"C", "o", "m", "p", "a", "n", "y">>
Revenue == <<"R", "e", "v", "e", "n", "u", "e">>
revenue == <<"r", "e", "v", "e", "n", "u", "e">>

th(text) == [tag |-> "th", text |-> text]
td(text) == [tag |-> "td", text |-> text]

RECURSIVE Flatten(_)
Flatten(seqs) == IF seqs = <<>> THEN <<>> ELSE Head(seqs) \o Flatten(Tail(seqs))

\* the DataFrame extract_table_data builds from the page, NoData for None
extract_table_data_df(page) ==
  LET tables == SelectSeq(page.tables, LAMBDA t : t.wikitable)
  IN  IF tables = <<>> THEN NoData
      ELSE
        LET table0 == tables[1]
            headers == SelectSeq(Flatten(table0.trs), LAMBDA c : c.tag = "th")
            column_names == [i \in 1..Len(headers) |-> strip(headers[i].text, Whitespace)]
            rows == IF table0.trs = <<>> THEN <<>> ELSE Tail(table0.trs)
            kept == SelectSeq(rows, LAMBDA row :
                      Len(SelectSeq(row, LAMBDA c : c.tag = "td")) = Len(column_names))
            cells(k) == SelectSeq(kept[k], LAMBDA c : c.tag = "td")
            at(col) == CHOOSE j \in 1..Len(column_names) : column_names[j] = col
        IN  IF column_names = <<>> /\ kept # <<>>
            THEN NoData  \* df.loc on a frame without columns raises ValueError, caught
            ELSE [none |-> FALSE,
                  columns |-> column_names,
                  dtypes |-> [j \in 1..Len(column_names) |-> "object"],
                  rows |-> [k \in 1..Len(kept) |->
                              [col \in Range(column_names) |->
                                 Str(strip(cells(k)[at(col)].text, Whitespace))]],
                  index |-> [k \in 1..Len(kept) |-> k - 1]]

\* mutant: dropna() with its default how='any'
dropna_any(d) ==
  TakeRows(d, SelectSeq(Positions(len(d)), LAMBDA i :
                \A c \in ColumnSet(d) : ~isna(d.rows[i][c])))

\* DataFrame.dropna(how='all'): the rows in which every value is missing go
dropna_all(d) ==
  TakeRows(d, SelectSeq(Positions(len(d)), LAMBDA i :
                ColumnSet(d) = {} \/ \E c \in ColumnSet(d) : ~isna(d.rows[i][c])))

\* str.replace(r'[\$,]', '', regex=True), then pd.to_numeric(errors='coerce'),
\* for texts without sign, decimal point or exponent
to_numeric(c) ==
  LET s == IF c.k = "str" THEN SelectSeq(c.v, LAMBDA ch : ch \notin {"$", ","}) ELSE <<>>
      n == lstrip(s, {"0"})
  IN  IF s # <<>> /\ Range(s) \subseteq DigitChars
      THEN IntCell(IF n = <<>> THEN <<"0">> ELSE n)
      ELSE NaN

RECURSIVE clean_revenue_loop(_, _)
clean_revenue_loop(d, cols) ==
  IF cols = <<>> THEN d
  ELSE LET col == Head(cols)
           dtype == infer_dtype({to_numeric(d.rows[r][col]) : r \in 1..len(d)})
       IN  clean_revenue_loop(
             SetColumn(d, col,
                       [r \in 1..len(d) |-> as_dtype(to_numeric(d.rows[r][col]), dtype)],
                       dtype),
             Tail(cols))

\* clean_data(df): what it returns; the argument when anything raised
clean_data_df(d) ==
  LET cleaned_df == dropna_all(d)
      revenue_columns == SelectSeq(cleaned_df.columns, LAMBDA c : contains(lower(c), revenue))
  IN  IF \E j \in 1..Len(revenue_columns) : ~str_accessor_ok(cleaned_df, revenue_columns[j])
      THEN d
      ELSE reset_index(clean_revenue_loop(cleaned_df, revenue_columns))

\* rows of the page's tables besides the header row
MaxBodyRows == 2

HeaderRow == <<th(<<" ", "C", "o", "m", "p", "a", "n", "y">>), th(Revenue)>>

BodyRows ==
  {<<td(<<" ", "A", "p", "p", "l", "e", " ">>), td(<<"$", "3", ",", "6">>)>>,
   <<td(<<"A", "c", "m", "e">>), td(<<"n", "/", "a">>)>>,
   <<td(<<"S", "h", "e", "l", "l">>)>>,
   <<th(<<"1">>), td(<<"I", "B", "M">>), td(<<"7">>)>>}

WikiTables ==
  {[wikitable |-> TRUE, trs |-> <<HeaderRow>> \o body] :
     body \in UNION {[1..n -> BodyRows] : n \in 0..MaxBodyRows}}

OtherTable ==
  [wikitable |-> FALSE, trs |-> <<<<th(<<"K", "e", "y">>)>>, <<td(<<"x">>)>>>>]

\* the pages requests.get can bring back
Pages ==
  {[none |-> FALSE, tables |-> <<>>], [none |-> FALSE, tables |-> <<OtherTable>>]}
  \cup {[none |-> FALSE, tables |-> <<t>>] : t \in WikiTables}
  \cup {[none |-> FALSE, tables |-> <<OtherTable, t>>] : t \in WikiTables}

\* the tables the tests hand to clean_data: built with pd.DataFrame, so a
\* missing value is None
CleanRows ==
  {(Company :> Str(<<"A", "p", "p", "l", "e">>)) @@ (Revenue :> Str(<<"$", "3", ",", "6">>)),
   (Company :> None) @@ (Revenue :> Str(<<"7">>)),
   (Company :> Str(<<"A", "c", "m", "e">>)) @@ (Revenue :> None),
   (Company :> Str(<<"I", "B", "M">>)) @@ (Revenue :> Str(<<"n", "/", "a">>)),
   (Company :> None) @@ (Revenue :> None)}

CleanInputs ==
  {[none |-> FALSE, columns |-> <<>>, dtypes |-> <<>>, rows |-> <<>>, index |-> <<>>]}
  \cup {[none |-> FALSE, columns |-> <<Company, Revenue>>, dtypes |-> <<"object", "object">>,
         rows |-> rs, index |-> [r \in 1..Len(rs) |-> r - 1]] :
          rs \in UNION {[1..n -> CleanRows] : n \in 0..MaxRows}}

\* calls of scrape_and_export on one instance
MaxScrapes == 2

\* scrape_and_export entered; fetch_webpage gets the page, or None when the
\* request raised a RequestException
fetch_webpage(ok, page) ==
  /\ scraper_pc = "idle"
  /\ scrapes < MaxScrapes
  /\ scrapes' = scrapes + 1
  /\ soup' = (IF ok THEN page ELSE NoSoup)
  /\ scraper_pc' = (IF ok THEN "extract_table_data" ELSE "idle")
  /\ returned' = NoData
  /\ table' = NoData
  /\ save_result' = "none"
  /\ UNCHANGED <<scraper_df, clean_arg, cleaned>>
  /\ UNCHANGED <<cleaner_vars, eda_vars>>

extract_table_data ==
  /\ scraper_pc = "extract_table_data"
  /\ table' = extract_table_data_df(soup)
  /\ scraper_pc' = (IF table'.none THEN "idle" ELSE "clean_data")
  /\ UNCHANGED <<scraper_df, soup, returned, save_result, scrapes, clean_arg, cleaned>>
  /\ UNCHANGED <<cleaner_vars, eda_vars>>

clean_data ==
  /\ scraper_pc = "clean_data"
  /\ table' = clean_data_df(table)
  /\ scraper_pc' = "save_to_csv"
  /\ UNCHANGED <<scraper_df, soup, returned, save_result, scrapes, clean_arg, cleaned>>
  /\ UNCHANGED <<cleaner_vars, eda_vars>>

\* mutant: the table is kept in self.df and returned whatever save_to_csv said
save_to_csv_ignored(ok) ==
  /\ scraper_pc = "save_to_csv"
  /\ save_result' = (IF ok THEN "True" ELSE "False")
  /\ scraper_df' = table
  /\ returned' = table
  /\ scraper_pc' = "idle"
  /\ UNCHANGED <<soup, table, scrapes, clean_arg, cleaned>>
  /\ UNCHANGED <<cleaner_vars, eda_vars>>

\* save_to_csv writes the file or fails; scrape_and_export returns
save_to_csv(ok) ==
  /\ scraper_pc = "save_to_csv"
  /\ save_result' = (IF ok THEN "True" ELSE "False")
  /\ scraper_df' = (IF ok THEN table ELSE scraper_df)
  /\ returned' = (IF ok THEN table ELSE NoData)
  /\ scraper_pc' = "idle"
  /\ UNCHANGED <<soup, table, scrapes, clean_arg, cleaned>>
  /\ UNCHANGED <<cleaner_vars, eda_vars>>

\* clean_data called on a table of the caller's, as the tests do
clean_data_called(d) ==
  /\ scraper_pc = "idle"
  /\ clean_arg' = d
  /\ cleaned' = clean_data_df(d)
  /\ UNCHANGED <<scraper_df, scraper_pc, soup, table, returned, save_result, scrapes>>
  /\ UNCHANGED <<cleaner_vars, eda_vars>>

NextScraper ==
  \/ \E ok \in BOOLEAN, page \in Pages : fetch_webpage(ok, page)
  \/ extract_table_data
  \/ clean_data
  \/ \E ok \in BOOLEAN : save_to_csv(ok)

SpecScraper == Init /\ [][NextScraper]_vars

\* clean_data on its own, on any table
NextCleanData == \E d \in CleanInputs : clean_data_called(d)

SpecCleanData == Init /\ [][NextCleanData]_vars

-----------------------------------------------------------------------------
(* ComprehensiveEDA: data_overview                                         *)

RECURSIVE CountOf(_, _)
CountOf(seq, x) ==
  IF seq = <<>> THEN 0 ELSE (IF Head(seq) = x THEN 1 ELSE 0) + CountOf(Tail(seq), x)

\* the overview dictionary of data_overview, without memory_usage_mb (a
\* number of bytes that depends on the platform)
overview_of(d) ==
  [shape |-> <<len(d), Len(d.columns)>>,
   column_types |-> [t \in Range(d.dtypes) |-> CountOf(d.dtypes, t)],
   missing_values |->
     Cardinality({<<r, c>> \in (1..len(d)) \X ColumnSet(d) : isna(d.rows[r][c])}),
   duplicate_rows |->
     Cardinality({r \in 1..len(d) : \E q \in 1..(r - 1) : d.rows[q] = d.rows[r]}),
   unique_values_per_column |->
     [c \in ColumnSet(d) |->
        Cardinality({d.rows[r][c] : r \in 1..len(d)} \ {NaN, None})]]

\* the tables an analysis is run on
EdaFiles == {f \in InputFiles : f.columns = <<Zip_Code, Phone_Number>>}

\* ComprehensiveEDA.load_data(filepath) with a readable .csv file
eda_load_data(file) ==
  /\ eda_df' = read_file(file)
  /\ UNCHANGED <<analysis_results, overview_returned>>
  /\ UNCHANGED <<cleaner_vars, scraper_vars>>

\* mutant: the overview is returned but not kept in analysis_results
data_overview_not_stored ==
  /\ overview_returned' =
       [called |-> TRUE, value |-> IF eda_df.none THEN <<>> ELSE overview_of(eda_df)]
  /\ UNCHANGED <<eda_df, analysis_results>>
  /\ UNCHANGED <<cleaner_vars, scraper_vars>>

data_overview ==
  /\ IF eda_df.none
     THEN overview_returned' = [called |-> TRUE, value |-> <<>>] /\ UNCHANGED analysis_results
     ELSE /\ overview_returned' = [called |-> TRUE, value |-> overview_of(eda_df)]
          /\ analysis_results' =
               [k \in DOMAIN analysis_results \cup {"overview"} |-> overview_of(eda_df)]
  /\ UNCHANGED eda_df
  /\ UNCHANGED <<cleaner_vars, scraper_vars>>

NextEda ==
  \/ \E file \in EdaFiles : eda_load_data(file)
  \/ data_overview

SpecEda == Init /\ [][NextEda]_vars

-----------------------------------------------------------------------------
(* Properties                                                              *)

\* the row of the loaded table that row r of df comes from
Source(r) == loaded.rows[origin[r] + 1]

\* text of the form XXX-XXX-XXXX, X a digit
PhoneShaped(s) ==
  /\ Len(s) = 12
  /\ \A i \in 1..12 : IF i \in {4, 8} THEN s[i] = "-" ELSE s[i] \in DigitChars

NoTwoRowsEqual(d) == \A i, j \in 1..len(d) : i # j => d.rows[i] # d.rows[j]

\* C1: after clean_all returns True on a fresh cleaner, original_rows =
\* final_rows + duplicates_removed + do_not_contact_removed + invalid_phones_removed
C1_Accounting ==
  result = "True" =>
    cleaning_report.original_rows =
      cleaning_report.final_rows + cleaning_report.duplicates_removed
      + cleaning_report.do_not_contact_removed + cleaning_report.invalid_phones_removed

\* a run in which every kind of removal happened
C1_Witness ==
  /\ result = "True"
  /\ cleaning_report.duplicates_removed > 0
  /\ cleaning_report.do_not_contact_removed > 0
  /\ cleaning_report.invalid_phones_removed > 0

ExpectedCalls ==
  <<"load_data", "remove_duplicates", "remove_unnecessary_columns", "clean_names",
    "standardize_phone_numbers", "parse_addresses", "standardize_boolean_fields",
    "handle_missing_values", "apply_business_rules", "cleanup_columns", "finalize_data">>

\* C2: clean_all calls the steps once each in the fixed order: at every moment
\* the calls made are an initial part of that order, and all of it on return True
C2_FixedOrder ==
  /\ Len(calls) <= Len(ExpectedCalls)
  /\ calls = SubSeq(ExpectedCalls, 1, Len(calls))
  /\ result = "True" => calls = ExpectedCalls

C2_Witness == result = "True" /\ Len(calls) = 11 /\ len(df) > 0

\* C3 (as claimed): after a successful clean_all every remaining row has a
\* valid XXX-XXX-XXXX number in every column whose name contains 'phone'
C3_AllPhoneColumnsValid ==
  result = "True" =>
    \A r \in 1..len(df) : \A c \in ColumnSet(df) :
      contains(lower(c), phone) => df.rows[r][c].k = "str" /\ PhoneShaped(df.rows[r][c].v)

\* what standardize_phone_numbers is to make of a cell, from the cell's text
ExpectedPhone(c) ==
  LET ds == SelectSeq(c.v, LAMBDA ch : ch \in DigitChars)
  IN  IF Len(ds) = 10
      THEN Str(<<ds[1], ds[2], ds[3], "-", ds[4], ds[5], ds[6], "-",
                 ds[7], ds[8], ds[9], ds[10]>>)
      ELSE Str(<<>>)

\* C4: standardize_phone_numbers turns every cell of a recognized phone column
\* into its ten digits grouped 3-3-4 when its text has exactly ten digits and
\* into '' otherwise, and changes no other column, no row count, no index
C4_StandardizePhones ==
  [][pc = "standardize_phone_numbers" =>
       /\ df'.columns = df.columns
       /\ df'.index = df.index
       /\ len(df') = len(df)
       /\ \A r \in 1..len(df) : \A c \in ColumnSet(df) :
            df'.rows[r][c] =
              IF c \in {Phone_Number, phone_number, Phone, phone}
              THEN ExpectedPhone(df.rows[r][c])
              ELSE df.rows[r][c]]_vars

\* right after the step: a number was regrouped, another was blanked
C4_Witness ==
  /\ pc = "parse_addresses"
  /\ \E r \in 1..len(df) :
       /\ Source(r)[Phone_Number] = Str(TenDigits)
       /\ df.rows[r][Phone_Number] = Str(Dashed)
  /\ \E r \in 1..len(df) :
       /\ Source(r)[Phone_Number] = Str(<<"1", "2", "3", "4", "5">>)
       /\ df.rows[r][Phone_Number] = Empty

Affirmative ==
  {Str(Y), Str(<<"Y", "e", "s">>), Str(<<"T", "R", "U", "E">>), BoolTrue}

\* C5 (as claimed): after a successful clean_all no input row with an
\* affirmative do-not-contact flag remains, and no remaining row holds 'Y' there
C5_NoDoNotContactLeft ==
  result = "True" =>
    \A r \in 1..len(df) : \A c \in ColumnSet(loaded) :
      contains(lower(c), do_not_contact) =>
        /\ Source(r)[c] \notin Affirmative
        /\ df.rows[r][c] # Str(Y)

\* C6 (as claimed): after standardize_boolean_fields every cell of a boolean
\* column is exactly 'Y' or 'N'
C6_BooleansAreYN ==
  pc = "handle_missing_values" =>
    \A r \in 1..len(df) : \A c \in ColumnSet(df) :
      (\E kw \in boolean_keywords : contains(lower(c), kw)) =>
        df.rows[r][c] \in {Str(Y), Str(N)}

TitleCased(s) ==
  \A i \in 1..Len(s) :
    IsCased(s[i]) =>
      IF i > 1 /\ IsCased(s[i - 1]) THEN IsLower(s[i]) ELSE IsUpper(s[i])

\* C7 (as claimed): after clean_names no name cell holds a digit or one of
\* . / _ - at any position, and every name cell is title-cased
C7_NamesClean ==
  pc = "standardize_phone_numbers" =>
    \A r \in 1..len(df) : \A c \in ColumnSet(df) \cap {First_Name, Last_Name, first_name, last_name} :
      /\ \A i \in 1..Len(df.rows[r][c].v) :
           df.rows[r][c].v[i] \notin DigitChars \cup {".", "/", "_", "-"}
      /\ TitleCased(df.rows[r][c].v)

MissingInInput(c) ==
  \/ c = NaN
  \/ c \in {Str(<<"N", "/", "a">>), Str(<<"N", "/", "A">>), Str(<<"n", "u", "l", "l">>),
            Str(<<"N", "U", "L", "L">>), Str(<<"N", "o", "n", "e">>), Str(<<"N", "O", "N", "E">>)}

\* C8 (as claimed): after a successful clean_all every value missing in the
\* input is '' in the final table, and no cell is the text 'nan' or 'Nan'
C8_MissingBecomesEmpty ==
  result = "True" =>
    \A r \in 1..len(df) : \A c \in ColumnSet(df) :
      /\ (c \in ColumnSet(loaded) /\ MissingInInput(Source(r)[c])) => df.rows[r][c] = Empty
      /\ df.rows[r][c] \notin {Str(<<"n", "a", "n">>), Str(<<"N", "a", "n">>)}

\* C9: remove_duplicates leaves no two equal rows, keeps exactly the first
\* occurrence of every distinct row, in order, and sets duplicates_removed to
\* the row count before minus the row count after
C9_RemoveDuplicates ==
  [][pc = "remove_duplicates" =>
       /\ NoTwoRowsEqual(df')
       /\ \A r \in 1..len(df) :
            (\E k \in 1..len(df') : df'.index[k] = df.index[r])
              <=> (\A q \in 1..(r - 1) : df.rows[q] # df.rows[r])
       /\ \A k \in 1..len(df') : \E r \in 1..len(df) :
            df'.index[k] = df.index[r] /\ df'.rows[k] = df.rows[r]
       /\ \A k \in 1..(len(df') - 1) : df'.index[k] < df'.index[k + 1]
       /\ cleaning_report'.duplicates_removed = len(df) - len(df')]_vars

\* right after the step: a later copy of the first row was dropped, the row between kept
C9_Witness ==
  /\ pc = "remove_unnecessary_columns"
  /\ cleaning_report.duplicates_removed = 1
  /\ len(loaded) = 3 /\ loaded.rows[1] = loaded.rows[3]
  /\ df.index = <<0, 1>>

\* C10 (as claimed): after a successful clean_all the final table has no two
\* identical rows
C10_FinalRowsDistinct == result = "True" => NoTwoRowsEqual(df)

\* the parts Python's str.split(',', 2) gives for the address of row r
AddressSplit(d, col, r) == split(d.rows[r][col].v, ",", 2)

\* right after parse_addresses: every address with a comma is cut at its first
\* two commas and the trimmed parts are in Street_Address, State and Zip_Code
AddressesSplit ==
  (pc = "standardize_boolean_fields" /\ address_column(df) # <<>>) =>
    \A r \in 1..len(df) :
      LET col == address_column(df)
          parts == AddressSplit(df, col, r)
      IN  (df.rows[r][col].k = "str" /\ Len(parts) >= 2) =>
            /\ HasColumn(df, Street_Address) /\ HasColumn(df, State) /\ HasColumn(df, Zip_Code)
            /\ df.rows[r][Street_Address] = Str(strip(parts[1], Whitespace))
            /\ df.rows[r][State] = Str(strip(parts[2], Whitespace))
            /\ Len(parts) = 3 => df.rows[r][Zip_Code] = Str(strip(parts[3], Whitespace))

\* C11 (as claimed): parse_addresses cuts every address at its first two commas
\* into trimmed Street_Address, State and Zip_Code, and after a successful
\* clean_all the address column that was parsed is no longer in the table,
\* whichever of Address, address, Full_Address it was
C11_ParsedAddressColumnRemoved ==
  /\ AddressesSplit
  /\ (result = "True" /\ HasColumn(df, Street_Address)) =>
       address_column(loaded) \notin ColumnSet(df)

\* the extensions load_data reads
SupportedExtensions == {<<".", "x", "l", "s", "x">>, <<".", "c", "s", "v">>}

\* the path names a file that is there, of a kind load_data reads
FileWasRead(path) ==
  path.exists /\ lower(splitext_ext(path.name)) \in SupportedExtensions

\* C12: load_data returns True exactly when the file was read, and then
\* original_rows is the number of rows loaded; for an unsupported extension or
\* a failed read it returns False and leaves df and cleaning_report as they were
C12_LoadData ==
  [][runs' # runs =>
       /\ (pc' = Pipeline[1]) <=> FileWasRead(filepath')
       /\ pc' = Pipeline[1] =>
            ~df'.none /\ df' = loaded' /\ cleaning_report'.original_rows = len(df')
       /\ pc' # Pipeline[1] =>
            pc' = "done" /\ df' = df /\ cleaning_report' = cleaning_report]_vars

\* load_data failed on an unsupported extension while a cleaned table was held
C12_Witness ==
  /\ runs = 2 /\ pc = "done" /\ calls = <<"load_data">>
  /\ filepath.exists /\ splitext_ext(filepath.name) = <<".", "j", "s", "o", "n">>
  /\ ~df.none /\ cleaning_report.original_rows > 0

\* C13: clean_all returns False when load_data fails, having run no step and
\* leaving df and cleaning_report as before; it returns True only when every
\* step ran to completion; it always returns True or False, it never raises
C13_CleanAllReturns ==
  [][/\ (runs' # runs /\ ~FileWasRead(filepath')) =>
          /\ result' = "False" /\ pc' = "done" /\ calls' = <<"load_data">>
          /\ df' = df /\ cleaning_report' = cleaning_report
     /\ result' = "True" => (pc' = "done" /\ calls' = ExpectedCalls)
     /\ pc' = "done" => result' \in {"True", "False"}]_vars

\* the second clean_all found no file: the table and the report of the first,
\* successful call are still there
C13_Witness ==
  /\ runs = 2 /\ result = "False" /\ calls = <<"load_data">> /\ ~filepath.exists
  /\ ~df.none /\ cleaning_report.final_rows > 0

\* C14 (as claimed): save_cleaned_data returns False and writes nothing when no
\* data is loaded; with data loaded and a target that can be written, a bare
\* file name included, it writes the table and returns True
C14_SaveCleanedData ==
  [][(output_filepath' # output_filepath \/ saved' # saved \/ disk' # disk) =>
       IF df.none
       THEN saved' = "False" /\ disk' = disk
       ELSE output_filepath'.writable =>
              /\ saved' = "True"
              /\ output_filepath'.name \in DOMAIN disk'
              /\ disk'[output_filepath'.name] = to_csv(df)]_vars

\* C19 (as claimed): after any number of clean_all calls on one instance that
\* returned True, original_rows = final_rows + duplicates_removed +
\* do_not_contact_removed + invalid_phones_removed for the last call
C19_AccountingAfterRepeats ==
  (runs >= 1 /\ result = "True") =>
    cleaning_report.original_rows =
      cleaning_report.final_rows + cleaning_report.duplicates_removed
      + cleaning_report.do_not_contact_removed + cleaning_report.invalid_phones_removed

\* row r of d has 'Y' in a column whose name contains 'do_not_contact'
OptedOut(d, r) ==
  \E c \in ColumnSet(d) : contains(lower(c), do_not_contact) /\ d.rows[r][c] = Str(Y)

\* row r of d has '' in a column whose name contains 'phone'
WithoutPhone(d, r) ==
  \E c \in ColumnSet(d) : contains(lower(c), phone) /\ d.rows[r][c] = Empty

\* C20: apply_business_rules counts every row it removes in exactly one
\* counter: an opted-out row in do_not_contact_removed (also when it has no
\* phone), any other row without a phone in invalid_phones_removed; the two
\* increments add up to the number of rows removed
C20_RemovedRowsCountedOnce ==
  [][pc = "apply_business_rules" =>
       LET out == {r \in 1..len(df) : OptedOut(df, r)}
           nophone == {r \in 1..len(df) : ~OptedOut(df, r) /\ WithoutPhone(df, r)}
           dnc == cleaning_report'.do_not_contact_removed - cleaning_report.do_not_contact_removed
           inv == cleaning_report'.invalid_phones_removed - cleaning_report.invalid_phones_removed
       IN  /\ dnc = Cardinality(out)
           /\ inv = Cardinality(nophone)
           /\ dnc + inv = len(df) - len(df')
           /\ {df'.index[k] : k \in 1..len(df')}
                = {df.index[r] : r \in (1..len(df)) \ (out \cup nophone)}]_vars

\* right after the step: the only row was opted out and had no phone either;
\* it is counted as opted out and not as a row without phone
C20_Witness ==
  /\ pc = "cleanup_columns"
  /\ len(loaded) = 1 /\ len(df) = 0
  /\ HasColumn(loaded, Do_Not_Contact) /\ loaded.rows[1][Do_Not_Contact] = Str(<<"Y", "e", "s">>)
  /\ loaded.rows[1][Phone_Number] = NaN
  /\ cleaning_report.do_not_contact_removed = 1
  /\ cleaning_report.invalid_phones_removed = 0

\* C15: scrape_and_export runs fetch_webpage, extract_table_data, clean_data,
\* save_to_csv in this order and stops at the first stage that fails: it then
\* returns None and leaves self.df as it was; only when all four succeeded it
\* returns the cleaned table and stores it in self.df
C15_ScrapeAndExport ==
  [][/\ scraper_pc' # "idle" =>
          /\ <<scraper_pc, scraper_pc'>> \in
               {<<"idle", "extract_table_data">>, <<"extract_table_data", "clean_data">>,
                <<"clean_data", "save_to_csv">>}
          /\ scraper_df' = scraper_df
          /\ scraper_pc = "idle" => ~soup'.none
          /\ scraper_pc = "extract_table_data" => ~table'.none
     /\ scraper_pc' = "idle" =>
          IF scraper_pc = "save_to_csv" /\ save_result' = "True"
          THEN /\ returned' = clean_data_df(extract_table_data_df(soup))
               /\ ~returned'.none
               /\ scraper_df' = returned'
          ELSE /\ returned' = NoData
               /\ scraper_df' = scraper_df
               /\ \/ scraper_pc = "idle" /\ soup'.none
                  \/ scraper_pc = "extract_table_data" /\ table'.none
                  \/ scraper_pc = "save_to_csv" /\ save_result' = "False"]_vars

\* the second scrape_and_export could not save its table: it returned None and
\* self.df is still the table of the first
C15_Witness ==
  /\ scrapes = 2 /\ scraper_pc = "idle" /\ save_result = "False"
  /\ returned = NoData
  /\ ~scraper_df.none /\ ~table.none /\ table # scraper_df

\* the td cells of a row
Cells(row) == SelectSeq(row, LAMBDA c : c.tag = "td")

\* C16 (as claimed): extract_table_data returns None when the page has no
\* table of class wikitable; otherwise its columns are the header cells of the
\* first such table and it has exactly one row, in document order, for every
\* row of that table after the header row, holding the trimmed cell texts
C16_ExtractTableData ==
  [][scraper_pc = "extract_table_data" =>
       LET tables == SelectSeq(soup.tables, LAMBDA t : t.wikitable)
       IN  IF tables = <<>> THEN table'.none
           ELSE LET headers == SelectSeq(Flatten(tables[1].trs), LAMBDA c : c.tag = "th")
                    body == Tail(tables[1].trs)
                IN  /\ ~table'.none
                    /\ table'.columns = [j \in 1..Len(headers) |-> strip(headers[j].text, Whitespace)]
                    /\ len(table') = Len(body)
                    /\ \A k \in 1..Len(body) :
                         /\ Len(Cells(body[k])) = Len(headers)
                         /\ \A j \in 1..Len(headers) :
                              table'.rows[k][table'.columns[j]]
                                = Str(strip(Cells(body[k])[j].text, Whitespace))]_vars

\* C17 (as claimed): clean_data removes every row that has a missing value in
\* any column and keeps the others; an empty table gives an empty table
C17_CleanDataDropsMissing ==
  ~clean_arg.none =>
    /\ len(cleaned) =
         Cardinality({r \in 1..len(clean_arg) :
                        \A c \in ColumnSet(clean_arg) : ~isna(clean_arg.rows[r][c])})
    /\ len(clean_arg) = 0 => len(cleaned) = 0

\* C18: data_overview returns {} and leaves analysis_results alone when no
\* data is loaded; with data loaded it returns a dictionary whose 'shape' is
\* (rows, columns), keeps the same dictionary as analysis_results['overview'],
\* and leaves the table as it was
C18_DataOverview ==
  [][overview_returned' # overview_returned \/ analysis_results' # analysis_results =>
       /\ eda_df' = eda_df
       /\ IF eda_df.none
          THEN overview_returned'.value = <<>> /\ analysis_results' = analysis_results
          ELSE /\ overview_returned'.value.shape = <<len(eda_df), Len(eda_df.columns)>>
               /\ "overview" \in DOMAIN analysis_results'
               /\ analysis_results'["overview"] = overview_returned'.value]_vars

\* the overview of a table of three rows and two columns was returned and kept
C18_Witness ==
  /\ overview_returned.called
  /\ len(eda_df) = 3
  /\ "overview" \in DOMAIN analysis_results
  /\ analysis_results["overview"] = overview_returned.value
  /\ overview_returned.value.shape = <<3, 2>>


\* ---- C21 ----
\* the steps that work on columns, and the two last steps
ColumnSteps ==
  {"remove_unnecessary_columns", "clean_names", "standardize_phone_numbers",
   "parse_addresses", "standardize_boolean_fields", "handle_missing_values",
   "cleanup_columns"}

\* the labels of s in their order are labels of t in their order
RECURSIVE Subsequence(_, _)
Subsequence(s, t) ==
  IF s = <<>> THEN TRUE
  ELSE IF t = <<>> THEN FALSE
  ELSE IF Head(s) = Head(t) THEN Subsequence(Tail(s), Tail(t))
  ELSE Subsequence(s, Tail(t))

\* C21: only remove_duplicates and apply_business_rules change the set of
\* rows. Each of remove_unnecessary_columns, clean_names,
\* standardize_phone_numbers, parse_addresses, standardize_boolean_fields,
\* handle_missing_values and cleanup_columns leaves the rows (their labels)
\* and their order as they were; finalize_data keeps the number of rows and
\* their order and only renumbers them; the two filtering steps keep the
\* remaining rows in their order; no step increases the number of rows.
C21_OnlyFiltersChangeRows ==
  [][/\ pc \in ColumnSteps => /\ len(df') = len(df)
                              /\ df'.index = df.index
     /\ pc = "finalize_data" => /\ len(df') = len(df)
                                /\ df'.rows = df.rows
     /\ pc \in {"remove_duplicates", "apply_business_rules"}
          => Subsequence(df'.index, df.index)
     /\ pc \notin {"idle", "done"} => len(df') <= len(df)]_vars

\* a run in which the second of three rows was filtered out and every other
\* step kept the first and the third row in their order, values rewritten
C21_Witness ==
  /\ pc = "done"
  /\ result = "True"
  /\ len(loaded) = 3
  /\ origin = <<0, 2>>
  /\ len(df) = 2
  /\ df.rows # TakeRows(loaded, <<1, 3>>).rows


\* ---- C22 ----
\* cleaning_report as __init__ leaves it
InitialReport ==
  [original_rows |-> 0, duplicates_removed |-> 0, invalid_phones_removed |-> 0,
   do_not_contact_removed |-> 0, final_rows |-> 0]

\* C22: every cleaning step, remove_duplicates through finalize_data, called
\* in any order while no data is loaded does nothing: df stays None, every
\* field of cleaning_report keeps its initial value 0, and the call returns to
\* its caller normally (nothing is raised, no result is produced).
C22_StepsBeforeLoadAreNoOps ==
  [][(df.none /\ pc \notin {"idle", "done"})
       => /\ df'.none
          /\ df' = NoData
          /\ cleaning_report = InitialReport
          /\ cleaning_report' = InitialReport
          /\ pc' = "idle"
          /\ result' = result]_vars

\* the last step and then the first were called on a new instance, and both
\* have returned
C22_Witness ==
  /\ df.none
  /\ pc = "idle"
  /\ runs = 0
  /\ calls = <<"finalize_data", "remove_duplicates">>
  /\ cleaning_report = InitialReport

=============================================================================
